---- MODULE Spec2Model ----
(***************************************************************************)
(* Scan upload controller (uploadController.js), PDF service               *)
(* (pdfService.js), student controller and Student model of the exam       *)
(* scanner backend, as a state machine.                                    *)
(*                                                                         *)
(* Shared state: the students collection (db), the PDF directory (disk)    *)
(* and the wall clock (now).  Each in-flight POST /api/upload/scan/:id is  *)
(* a process whose position and locals are kept in req[r].                 *)
(***************************************************************************)
EXTENDS Integers, Sequences, FiniteSets, TLC

----------------------------------------------------------------------------
(* Bounds of the model *)

MaxClock == 2
MaxFiles == 1
PipeMaxFiles == 5
SplitMaxW == 110
SplitMaxH == 60
PoolMaxFiles == 9
StageMaxFiles == 2
DetectGrid == 5
GapMaxW == 45
GapMaxRun == 4

(* Program constants *)

maxConcurrency == 4
ResizeW == 800
ResizeH == 1000
MaxUpload == 50

Reqs == {1, 2}
Students == {"s1", "s2"}
Rolls == {"R1", "R2"}
Statuses == {"Pending", "Present", "Absent", "Missing"}

NoPath == [roll |-> "-", ts |-> 0, kind |-> "none"]
NoFile == [form |-> "nofile", pages |-> <<>>]
NoTime == -1
NoStudent == "-"

Min(a, b) == IF a <= b THEN a ELSE b
Max(a, b) == IF a >= b THEN a ELSE b

----------------------------------------------------------------------------
(* Image buffers.  An uploaded image is described by what the code reads   *)
(* from it: its pixel size, the bounding box of the dark pixels the        *)
(* boundary detector samples, its bright vertical bands (strip: the bands   *)
(* from column `from` to column `to` of a strip `cols` columns wide, with   *)
(* the number of the 120 analysed rows that are bright in them), the sharp  *)
(* stages that throw on it, and which pdf-lib embed accepts the untouched   *)
(* buffer.                                                                  *)

Img(w, h, l, r, t, b, strip, bad, emb) ==
  [w |-> w, h |-> h, box |-> [l |-> l, r |-> r, t |-> t, b |-> b],
   strip |-> strip, bad |-> bad, emb |-> emb]

Band(from, to, bright) == [from |-> from, to |-> to, bright |-> bright]
NoBands == [cols |-> 1000, bands |-> <<>>]

Catalog ==
  [ \* a portrait sheet photographed on a dark desk
    plain |-> Img(600, 800, 60, 540, 60, 780, NoBands, {}, "jpg"),
    \* two sheets side by side (aspect 1.5); 2% of its height is not a whole pixel
    two |-> Img(720, 480, 0, 714, 0, 476, NoBands, {}, "jpg"),
    \* three sheets side by side (aspect 2.0)
    three |-> Img(800, 400, 0, 792, 0, 392, NoBands, {}, "jpg"),
    \* a photo larger than the resize box, aspect 2.0
    big |-> Img(1600, 800, 0, 1584, 0, 784, NoBands, {}, "jpg"),
    \* near-square photo whose brightness analysis finds a seam in the middle
    gap |-> Img(600, 600, 0, 594, 0, 594,
                [cols |-> 1000, bands |-> <<Band(460, 540, 120)>>], {}, "jpg"),
    \* wide photo on which every sharp extract throws
    nosplit |-> Img(800, 400, 0, 792, 0, 392, NoBands, {"split"}, "jpg"),
    \* wide photo on which the enhancement throws
    noenh |-> Img(800, 400, 0, 792, 0, 392, NoBands, {"enhance"}, "jpg"),
    \* portrait sheet on which the boundary detection throws
    nodetect |-> Img(600, 800, 60, 540, 60, 780, NoBands, {"detect"}, "jpg"),
    \* a buffer no sharp stage of the pipeline accepts; embedded through PNG
    png |-> Img(750, 500, 750, 0, 500, 0, NoBands, {"fast", "detect", "enhance", "split"}, "png"),
    \* a buffer neither embedJpg nor the PNG fallback accepts
    corrupt |-> Img(600, 800, 600, 0, 800, 0, NoBands, {"fast", "detect", "enhance", "split"}, "none") ]

CtlImages == {"plain", "three", "corrupt"}
PipeImages == {"two", "big", "png"}
PoolImages == {"three", "png"}
StageImages == {"three", "nosplit", "noenh", "nodetect", "png", "corrupt"}

\* a buffer: the image it came from (name, id: position in req.files), its
\* current size, the slice of a split it is (piece of `of`, cut at column x),
\* and the stages that produced it
Buffer(name, id) ==
  [name |-> name, id |-> id, w |-> Catalog[name].w, h |-> Catalog[name].h,
   piece |-> 0, of |-> 0, x |-> 0, hist |-> <<>>]

\* the picture in a buffer: an uploaded photo is one of the catalog; a buffer
\* made for a single stage carries its picture in the field pix
Pix(b) == IF "pix" \in DOMAIN b THEN b.pix ELSE Catalog[b.name]

Bad(b) == Pix(b).bad
\* every stage that succeeds re-encodes to JPEG
Emb(b) == IF b.hist = <<>> THEN Pix(b).emb ELSE "jpg"

\* req.files: multer keeps upload order
Tag(fs) == [i \in 1..Len(fs) |-> Buffer(fs[i], i)]

SeqsUpTo(S, n) == UNION {[1..k -> S] : k \in 0..n}

----------------------------------------------------------------------------
(* uploadController.js: fastCompressImage.  resize(800, 1000, fit inside,  *)
(* withoutEnlargement) keeps a buffer that fits and otherwise scales both  *)
(* sides by the smaller of 800/w and 1000/h; the output is JPEG.  On a     *)
(* sharp error the input buffer is returned.                               *)

Round(num, den) == (2 * num + den) \div (2 * den)

ResizeInside(b) ==
  IF b.w <= ResizeW /\ b.h <= ResizeH THEN b
  ELSE LET byW == b.w * ResizeH >= b.h * ResizeW
           nw == IF byW THEN ResizeW ELSE Max(1, Round(b.w * ResizeH, b.h))
           nh == IF byW THEN Max(1, Round(b.h * ResizeW, b.w)) ELSE ResizeH
       IN [b EXCEPT !.w = nw, !.h = nh]

fastCompressImage(b) ==
  IF "fast" \in Bad(b) THEN b
  ELSE [ResizeInside(b) EXCEPT !.hist = Append(b.hist, "fast")]

----------------------------------------------------------------------------
(* pdfService.js: detectDocumentBoundaries.  Lengths that the code         *)
(* multiplies by 0.02 are kept in fiftieths of a pixel (suffix 50), so the *)
(* margin min(30, 0.02 w, 0.02 h) is exact; sharp's extract throws on a    *)
(* value that is not an integer and the catch returns the input.           *)

minDocumentSize10 == 6
MarginCap == 30

\* lines 35-50: the loop over the sampled pixels of a w x h picture whose
\* pixels darker than edgeThreshold are the rectangle dark (columns x0..x1,
\* rows y0..y1; none when x0 > x1 or y0 > y1)
sampleRate(w) == Max(2, w \div 100)

SetMin(S) == CHOOSE x \in S : \A y \in S : x <= y
SetMax(S) == CHOOSE x \in S : \A y \in S : x >= y

SampledEdges(w, h, dark) ==
  LET xs == {x \in 0..(w - 1) : x % sampleRate(w) = 0 /\ dark.x0 <= x /\ x <= dark.x1}
      ys == {y \in 0..(h - 1) : y % sampleRate(w) = 0 /\ dark.y0 <= y /\ y <= dark.y1}
  IN IF xs = {} \/ ys = {}
     THEN [l |-> w, r |-> 0, t |-> h, b |-> 0]
     ELSE [l |-> SetMin(xs), r |-> SetMax(xs), t |-> SetMin(ys), b |-> SetMax(ys)]

\* the bounding box of the sampled dark pixels, in the pixels of buffer b
DarkBox(b) ==
  LET c == Pix(b)
  IN [l |-> (c.box.l * b.w) \div c.w, r |-> (c.box.r * b.w) \div c.w,
      t |-> (c.box.t * b.h) \div c.h, b |-> (c.box.b * b.h) \div c.h]

\* lines 54-67: the size of the detected box and the extract region, the
\* region in fiftieths of a pixel
CropRect(b) ==
  LET box == DarkBox(b)
      detectedWidth == box.r - box.l
      detectedHeight == box.b - box.t
      margin50 == Min(MarginCap * 50, Min(b.w, b.h))
      cropLeft50 == Max(0, 50 * box.l - margin50)
      cropTop50 == Max(0, 50 * box.t - margin50)
  IN [detectedWidth |-> detectedWidth, detectedHeight |-> detectedHeight,
      margin50 |-> margin50, left50 |-> cropLeft50, top50 |-> cropTop50,
      width50 |-> Min(50 * b.w - cropLeft50, 50 * detectedWidth + 2 * margin50),
      height50 |-> Min(50 * b.h - cropTop50, 50 * detectedHeight + 2 * margin50)]

\* sharp's extract takes integers only
WholeRect(c) ==
  /\ c.left50 % 50 = 0 /\ c.top50 % 50 = 0
  /\ c.width50 % 50 = 0 /\ c.height50 % 50 = 0

\* the reliability test on the width alone
detectDocumentBoundariesWidthOnly(b) ==
  LET c == CropRect(b)
  IN IF "detect" \in Bad(b) THEN b
     ELSE IF 10 * c.detectedWidth < minDocumentSize10 * b.w THEN b
     ELSE IF ~WholeRect(c) THEN b
     ELSE [b EXCEPT !.w = c.width50 \div 50, !.h = c.height50 \div 50,
                    !.hist = Append(b.hist, "crop")]

detectDocumentBoundaries(b) ==
  LET c == CropRect(b)
  IN IF "detect" \in Bad(b) THEN b
     ELSE IF \/ 10 * c.detectedWidth < minDocumentSize10 * b.w
             \/ 10 * c.detectedHeight < minDocumentSize10 * b.h THEN b
     ELSE IF ~WholeRect(c) THEN b
     ELSE [b EXCEPT !.w = c.width50 \div 50, !.h = c.height50 \div 50,
                    !.hist = Append(b.hist, "crop")]

(* pdfService.js: enhanceDocumentQuality *)
enhanceDocumentQuality(b) ==
  IF "enhance" \in Bad(b) THEN b
  ELSE [b EXCEPT !.hist = Append(b.hist, "enh")]

----------------------------------------------------------------------------
(* pdfService.js: the page splitter *)

\* sharp.extract({left, top: 0, width, height}) succeeds on a region inside the image
ExtractOk(b, left, width) ==
  /\ "split" \notin Bad(b)
  /\ left >= 0 /\ width > 0 /\ left + width <= b.w

Slice(b, left, width, k, n) ==
  [b EXCEPT !.w = width, !.piece = k, !.of = n, !.x = left,
            !.hist = Append(b.hist, "slice")]

\* the right page cut at the middle column, without its safety margin
splitIntoTwoPagesRightAtMiddle(b) ==
  LET safetyMargin == b.w \div 50
      leftPageEnd == b.w \div 2 + safetyMargin
      rightPageStart == b.w \div 2
  IN IF /\ ExtractOk(b, 0, leftPageEnd)
        /\ ExtractOk(b, rightPageStart, b.w - rightPageStart)
     THEN << Slice(b, 0, leftPageEnd, 1, 2),
             Slice(b, rightPageStart, b.w - rightPageStart, 2, 2) >>
     ELSE <<>>

\* <<>> stands for the thrown error
splitIntoTwoPagesVertical(b) ==
  LET safetyMargin == b.w \div 50
      leftPageEnd == b.w \div 2 + safetyMargin
      rightPageStart == b.w \div 2 - safetyMargin
  IN IF /\ ExtractOk(b, 0, leftPageEnd)
        /\ ExtractOk(b, rightPageStart, b.w - rightPageStart)
     THEN << Slice(b, 0, leftPageEnd, 1, 2),
             Slice(b, rightPageStart, b.w - rightPageStart, 2, 2) >>
     ELSE <<>>

\* three slices of one width: the third does not take the remainder of w / 3
splitIntoThreePagesEqualWidths(b) ==
  LET pageWidth == b.w \div 3
      safetyMargin == (3 * pageWidth) \div 100
      l2 == pageWidth - safetyMargin
      l3 == 2 * pageWidth - safetyMargin
  IN IF /\ ExtractOk(b, 0, pageWidth + safetyMargin)
        /\ ExtractOk(b, l2, pageWidth + 2 * safetyMargin)
        /\ ExtractOk(b, l3, pageWidth + safetyMargin)
     THEN << Slice(b, 0, pageWidth + safetyMargin, 1, 3),
             Slice(b, l2, pageWidth + 2 * safetyMargin, 2, 3),
             Slice(b, l3, pageWidth + safetyMargin, 3, 3) >>
     ELSE <<>>

\* <<>> stands for the thrown error; Promise.all keeps the order of its array
splitIntoThreePagesVertical(b) ==
  LET pageWidth == b.w \div 3
      safetyMargin == (3 * pageWidth) \div 100
      l2 == pageWidth - safetyMargin
      l3 == 2 * pageWidth - safetyMargin
  IN IF /\ ExtractOk(b, 0, pageWidth + safetyMargin)
        /\ ExtractOk(b, l2, pageWidth + 2 * safetyMargin)
        /\ ExtractOk(b, l3, b.w - l3)
     THEN << Slice(b, 0, pageWidth + safetyMargin, 1, 3),
             Slice(b, l2, pageWidth + 2 * safetyMargin, 2, 3),
             Slice(b, l3, b.w - l3, 3, 3) >>
     ELSE <<>>

(* detectVerticalPageGapsByBrightness.  The picture is resized to           *)
(* analysisWidth x 200; rows 40..159 of every column are counted.          *)
analysisHeight == 200
startY == 40
endY == 160

analysisWidth(b) == (b.w * analysisHeight) \div b.h
minGapWidth(b) == analysisWidth(b) \div 20

\* lines 283-291: brightPixels of analysis column x
brightPixels(b, x) ==
  LET strip == Pix(b).strip
      c == (x * strip.cols) \div analysisWidth(b)
      In(k) == strip.bands[k].from <= c /\ c <= strip.bands[k].to
  IN IF \E k \in DOMAIN strip.bands : In(k)
     THEN strip.bands[CHOOSE k \in DOMAIN strip.bands : In(k)].bright
     ELSE 0

\* lines 293-294: brightnessRatio > minGapBrightness (0.8), totalPixels rows
isGap(b, x) == 10 * brightPixels(b, x) > 8 * (endY - startY)

\* lines 303-307: the entry pushed for a run; strength in bright rows
GapRegion(run) ==
  [start |-> run.start, end |-> run.end, strength |-> run.strength,
   center |-> (run.start + run.end) \div 2, width |-> run.end - run.start]

\* lines 302 and 313: (currentGap.end - currentGap.start) >= minGapWidth
KeepRun(b, run) == (run.end - run.start) >= minGapWidth(b)

\* the columns of the analysis picture for which isGap is true
GapColumns(b) == {x \in 0..(analysisWidth(b) - 1) : isGap(b, x)}

\* lines 296-300: currentGap when the loop leaves the run that starts at
\* column s: end is the last column of the run, strength the greatest ratio
RunFrom(b, cols, s) ==
  LET e == CHOOSE e \in cols :
             /\ e >= s /\ (e + 1) \notin cols
             /\ \A x \in s..e : x \in cols
  IN [start |-> s, end |-> e,
      strength |-> SetMax({brightPixels(b, x) : x \in s..e})]

\* lines 276-319: the loop over the columns from x on, one run of gap
\* columns at a time.  A run is pushed when the loop meets the column after
\* it (line 302) or, for the run that reaches the last column, after the
\* loop (line 313), in both places if KeepRun.
RECURSIVE GapScan(_, _, _, _)
GapScan(b, cols, x, gapRegions) ==
  IF \A c \in cols : c < x
  THEN gapRegions
  ELSE LET s == SetMin({c \in cols : c >= x})
           currentGap == RunFrom(b, cols, s)
       IN GapScan(b, cols, currentGap.end + 1,
                  IF KeepRun(b, currentGap)
                  THEN Append(gapRegions, GapRegion(currentGap))
                  ELSE gapRegions)

GapRegions(b) == GapScan(b, GapColumns(b), 0, <<>>)

\* lines 324-329: gapRegions.sort(width, then strength, descending)[0]; the
\* sort keeps the scan order of equal entries
BestGap(gapRegions) ==
  LET Before(a, c) == \/ a.width > c.width
                      \/ a.width = c.width /\ a.strength > c.strength
      k == CHOOSE k \in DOMAIN gapRegions :
             /\ \A m \in DOMAIN gapRegions : ~Before(gapRegions[m], gapRegions[k])
             /\ \A m \in 1..(k - 1) : Before(gapRegions[k], gapRegions[m])
  IN gapRegions[k]

\* line 330
SplitPoint(b, bestGap) == (bestGap.center * b.w) \div analysisWidth(b)

\* the split point accepted between 20% and 80% of the width
InSafeRangeWide(b, splitPoint) == 10 * splitPoint > 2 * b.w /\ 10 * splitPoint < 8 * b.w

\* line 334: splitPoint > width * 0.3 && splitPoint < width * 0.7
InSafeRange(b, splitPoint) == 10 * splitPoint > 3 * b.w /\ 10 * splitPoint < 7 * b.w

\* lines 256-378; a failing sharp call (a resize to width 0 is one) ends in
\* the catch, which returns [imageBuffer]
detectVerticalPageGapsByBrightness(b) ==
  IF "split" \in Bad(b) \/ analysisWidth(b) = 0 THEN <<b>>
  ELSE IF GapRegions(b) = <<>> THEN <<b>>
  ELSE LET splitPoint == SplitPoint(b, BestGap(GapRegions(b)))
           safety == (3 * b.w) \div 200
       IN IF ~InSafeRange(b, splitPoint) THEN <<b>>
          ELSE IF /\ ExtractOk(b, 0, splitPoint + safety)
                  /\ ExtractOk(b, splitPoint - safety, b.w - (splitPoint - safety))
          THEN << Slice(b, 0, splitPoint + safety, 1, 2),
                  Slice(b, splitPoint - safety, b.w - (splitPoint - safety), 2, 2) >>
          ELSE <<b>>

\* the two-way split taken only above aspect ratio 1.5
SplitRouteNarrow(b) ==
  IF 10 * b.w > 18 * b.h THEN "three"
  ELSE IF 10 * b.w > 15 * b.h THEN "two"
  ELSE "brightness"

\* lines 127-146: the branch aspectRatio = width / height selects
SplitRoute(b) ==
  IF 10 * b.w > 18 * b.h THEN "three"
  ELSE IF 10 * b.w > 13 * b.h THEN "two"
  ELSE "brightness"

smartVerticalPageDetection(b) ==
  LET OrSelf(pages) == IF pages = <<>> THEN <<b>> ELSE pages
  IN IF "split" \in Bad(b) THEN <<b>>
     ELSE IF SplitRoute(b) = "three" THEN OrSelf(splitIntoThreePagesVertical(b))
     ELSE IF SplitRoute(b) = "two" THEN OrSelf(splitIntoTwoPagesVertical(b))
     ELSE detectVerticalPageGapsByBrightness(b)

\* the flag compared against a 1-based counter
isFirstPageOffByOne(i) == i = 0

\* generateAndSavePDF: const isFirstPage = (i === 0); positions are 1-based here
isFirstPage(i) == i = 1

\* does processImagePipeline hand the image to the splitter
SplitterCalled(first) == ~first

\* every stage failure answered by the outer catch: return [imageBuffer]
processImagePipelineFromOriginal(b, first) ==
  LET croppedImage == detectDocumentBoundaries(b)
      enhancedImage == enhanceDocumentQuality(croppedImage)
      failed == \/ Bad(b) \cap {"detect", "enhance"} # {}
                \/ SplitterCalled(first) /\ "split" \in Bad(b)
  IN IF failed THEN <<b>>
     ELSE IF SplitterCalled(first) THEN smartVerticalPageDetection(enhancedImage)
     ELSE <<enhancedImage>>

processImagePipeline(b, first) ==
  LET croppedImage == detectDocumentBoundaries(b)
      enhancedImage == enhanceDocumentQuality(croppedImage)
  IN IF SplitterCalled(first) THEN smartVerticalPageDetection(enhancedImage)
     ELSE <<enhancedImage>>

(* pdfService.js: addImageToPDF.  embedJpg, else sharp -> png -> embedPng, *)
(* else the error propagates.                                              *)
\* no PNG fallback
CanEmbedJpgOnly(b) == Emb(b) = "jpg"
CanEmbed(b) == Emb(b) \in {"jpg", "png"}
EmbeddedPage(b) ==
  [src |-> b.id, piece |-> b.piece, of |-> b.of, x |-> b.x, w |-> b.w,
   h |-> b.h, codec |-> Emb(b)]

----------------------------------------------------------------------------
(* State *)

VARIABLES
  db,       \* students collection: student id -> document
  disk,     \* PDF directory: path -> file content (NoFile: no such file)
  now,      \* Date.now()
  req,      \* per request: position in uploadScans and its locals
  statOk    \* history: paths fs.stat confirmed after compressPDF resolved

vars == << db, disk, now, req, statOk >>

Kinds == {"raw", "compressed"}
AllPaths == [roll : Rolls, ts : 0..MaxClock, kind : Kinds]

\* path.join(pdfsPath, `AnswerSheet_${rollNumber}_${Date.now()}[_compressed].pdf`)
PdfPath(roll, ts, kind) == [roll |-> roll, ts |-> ts, kind |-> kind]

Exists(p) == p # NoPath /\ disk[p] # NoFile

\* Student schema defaults (models/Student.js)
NewStudent(roll) ==
  [exists |-> TRUE, rollNumber |-> roll, status |-> "Pending",
   scannedPages |-> <<>>, isScanned |-> FALSE,
   pdfPath |-> NoPath, pdfGeneratedAt |-> NoTime]

IdleReq ==
  [pc |-> "idle", sid |-> NoStudent, files |-> <<>>,
   student |-> NewStudent("-"), loaded |-> NewStudent("-"),
   taken |-> 0, batch |-> 0, order |-> <<>>, results |-> <<>>,
   i |-> 0, allPages |-> <<>>, splitCalls |-> {}, gapRegions |-> <<>>,
   pdfFilePath |-> NoPath, compressedFilePath |-> NoPath,
   pdfResult |-> [pdfPath |-> NoPath, pageCount |-> 0],
   gs |-> "-", failedAt |-> "-", outcome |-> 0]

Init ==
  /\ \E roll \in [Students -> Rolls] :
       /\ roll["s1"] = "R1"
       /\ db = [s \in Students |-> NewStudent(roll[s])]
  /\ disk = [p \in AllPaths |-> NoFile]
  /\ now = 0
  /\ req = [r \in Reqs |-> IdleReq]
  /\ statOk = {}

Goto(r, fields) == req' = [req EXCEPT ![r] = fields @@ req[r]]

\* an exception inside the inner try of uploadScans: control moves to its catch
Throw(r, where) == Goto(r, [pc |-> "catch", failedAt |-> where])

----------------------------------------------------------------------------
(* Student model: pre('save') hook and save() *)

preSave(doc) ==
  IF Len(doc.scannedPages) > 0
  THEN [doc EXCEPT !.isScanned = TRUE]
  ELSE [doc EXCEPT !.isScanned = FALSE, !.pdfPath = NoPath,
                   !.pdfGeneratedAt = NoTime]

\* document.save() sends the paths that differ from the loaded document; an
\* assigned array is always sent
SavedDoc(cur, loaded, doc) ==
  [cur EXCEPT
     !.status = IF doc.status # loaded.status THEN doc.status ELSE @,
     !.scannedPages = doc.scannedPages,
     !.isScanned = IF doc.isScanned # loaded.isScanned THEN doc.isScanned ELSE @,
     !.pdfPath = IF doc.pdfPath # loaded.pdfPath THEN doc.pdfPath ELSE @,
     !.pdfGeneratedAt = IF doc.pdfGeneratedAt # loaded.pdfGeneratedAt
                        THEN doc.pdfGeneratedAt ELSE @]

----------------------------------------------------------------------------
(* uploadScans, lines 74-105: validation and Student.findById *)

\* the validation without the test of the student's status
uploadScansAbsentAllowed(r, s, fs) ==
  /\ req[r].pc = "idle"
  /\ UNCHANGED << db, disk, now, statOk >>
  /\ IF Len(fs) = 0 \/ Len(fs) > MaxUpload
     THEN Goto(r, [pc |-> "done", outcome |-> 400, sid |-> s, files |-> fs])
     ELSE IF ~db[s].exists
     THEN Goto(r, [pc |-> "done", outcome |-> 404, sid |-> s, files |-> fs])
     ELSE Goto(r, [pc |-> "compress", sid |-> s, files |-> fs,
                   student |-> db[s], loaded |-> db[s], taken |-> 0])

uploadScans(r, s, fs) ==
  /\ req[r].pc = "idle"
  /\ UNCHANGED << db, disk, now, statOk >>
  /\ IF Len(fs) = 0 \/ Len(fs) > MaxUpload
     THEN Goto(r, [pc |-> "done", outcome |-> 400, sid |-> s, files |-> fs])
     ELSE IF ~db[s].exists
     THEN Goto(r, [pc |-> "done", outcome |-> 404, sid |-> s, files |-> fs])
     ELSE IF db[s].status = "Absent"
     THEN Goto(r, [pc |-> "done", outcome |-> 400, sid |-> s, files |-> fs,
                   student |-> db[s], loaded |-> db[s]])
     ELSE Goto(r, [pc |-> "compress", sid |-> s, files |-> fs,
                   student |-> db[s], loaded |-> db[s], taken |-> 0])

(* processImagesInParallel: queue.splice(0, maxConcurrency) starts one     *)
(* fastCompressImage per file of the batch; the promises settle in any     *)
(* order (order records it); after allSettled the results are pushed.      *)
(* queue is files without its first `taken` entries, batch the number of   *)
(* files of the current batch.                                             *)

Queue(r) == SubSeq(req[r].files, req[r].taken + 1, Len(req[r].files))

\* the whole queue started at once
BatchSizeWholeQueue(queued) == queued

\* queue.splice(0, maxConcurrency).length
BatchSize(queued) == Min(maxConcurrency, queued)

TakeBatch(r) ==
  /\ req[r].pc = "compress"
  /\ UNCHANGED << db, disk, now, statOk >>
  /\ IF Len(Queue(r)) > 0
     THEN LET n == BatchSize(Len(Queue(r)))
          IN Goto(r, [pc |-> "await", batch |-> n, taken |-> req[r].taken + n,
                      order |-> <<>>])
     ELSE Goto(r, [pc |-> "generate", batch |-> 0, order |-> <<>>])

Range(f) == {f[x] : x \in DOMAIN f}

SettleTask(r, k) ==
  /\ req[r].pc = "await"
  /\ k \in 1..req[r].batch
  /\ k \notin Range(req[r].order)
  /\ UNCHANGED << db, disk, now, statOk >>
  /\ Goto(r, [order |-> Append(req[r].order, k)])

\* results pushed as the promises settle
PushOrderAsSettled(n, settleOrder) == settleOrder

\* batchResults.forEach((result, index) => results.push(...)): index order
PushOrder(n, settleOrder) == [k \in 1..n |-> k]

CollectBatch(r) ==
  /\ req[r].pc = "await"
  /\ Len(req[r].order) = req[r].batch
  /\ UNCHANGED << db, disk, now, statOk >>
  /\ LET first == req[r].taken - req[r].batch
         ord == PushOrder(req[r].batch, req[r].order)
         got == [k \in 1..Len(ord) |->
                   fastCompressImage(req[r].files[first + ord[k]])]
     IN Goto(r, [pc |-> "compress", results |-> req[r].results \o got,
                 batch |-> 0, order |-> <<>>])

----------------------------------------------------------------------------
(* generateAndSavePDF (pdfService.js), called at uploadScans line 117 *)

\* lines 422-439: mkdir the PDF directory, PDFDocument.create
GenBegin(r) ==
  /\ req[r].pc = "generate"
  /\ UNCHANGED << db, disk, now, statOk >>
  /\ \/ Goto(r, [pc |-> "pipeline", i |-> 1, allPages |-> <<>>, splitCalls |-> {}])
     \/ Throw(r, "mkdir")

\* lines 442-461: one pass of the loop over imageBuffers
ProcessImage(r) ==
  /\ req[r].pc = "pipeline"
  /\ UNCHANGED << db, disk, now, statOk >>
  /\ LET i == req[r].i
         first == isFirstPage(i)
         processedPages == processImagePipeline(req[r].results[i], first)
     IN Goto(r, [pc |-> IF i = Len(req[r].results) THEN "embed" ELSE "pipeline",
                 i |-> IF i = Len(req[r].results) THEN 1 ELSE i + 1,
                 allPages |-> req[r].allPages \o processedPages,
                 results |-> IF i = Len(req[r].results) THEN <<>> ELSE req[r].results,
                 splitCalls |-> IF SplitterCalled(first)
                                THEN req[r].splitCalls \cup {i}
                                ELSE req[r].splitCalls])

\* the pages of pdfDoc: the first i - 1 entries of allPages have been added
DocPages(r) ==
  [k \in 1..(req[r].i - 1) |-> EmbeddedPage(req[r].allPages[k])]

\* lines 465-467 and addImageToPDF: one pass of the loop over allPages
AddImageToPDF(r) ==
  /\ req[r].pc = "embed"
  /\ UNCHANGED << db, disk, now, statOk >>
  /\ LET i == req[r].i
         page == req[r].allPages[i]
     IN IF CanEmbed(page)
        THEN Goto(r, [pc |-> IF i = Len(req[r].allPages) THEN "write" ELSE "embed",
                      i |-> i + 1])
        ELSE Throw(r, "embed")

\* lines 469-479: pdfDoc.save, the two file names (two Date.now() calls), writeFile.
\* A failed writeFile leaves no file or a truncated one.
WritePdf(r) ==
  /\ req[r].pc = "write"
  /\ UNCHANGED << db, statOk >>
  /\ \E t2 \in {now, Min(now + 1, MaxClock)} :
       LET roll == req[r].student.rollNumber
           raw == PdfPath(roll, now, "raw")
           out == PdfPath(roll, t2, "compressed")
       IN /\ now' = t2
          /\ \/ /\ disk' = [disk EXCEPT ![raw] = [form |-> "raw", pages |-> DocPages(r)]]
                /\ Goto(r, [pc |-> "gs", pdfFilePath |-> raw, compressedFilePath |-> out])
             \/ /\ \/ UNCHANGED disk
                   \/ disk' = [disk EXCEPT ![raw] = [form |-> "partial", pages |-> <<>>]]
                /\ Goto(r, [pc |-> "catch", failedAt |-> "write",
                            pdfFilePath |-> raw, compressedFilePath |-> out])

(* compressPDF: exec(gs ...).  Exit 0: gs wrote the output.  Error (tool   *)
(* missing, timeout, non-zero exit; a killed gs may leave a partial        *)
(* output): fs.copyFile(input, output), whose failure rejects.  Spawning   *)
(* the process takes at least one tick of the millisecond clock.           *)
\* gs records the callback's argument: "ok" (error null) or "error".
\* A compressPDF that resolves after a failed gs without waiting for the copy:
compressPDFWithoutCopy(r) ==
  /\ req[r].pc = "gs"
  /\ now < MaxClock
  /\ now' = now + 1
  /\ UNCHANGED << db, statOk >>
  /\ LET in == req[r].pdfFilePath
         out == req[r].compressedFilePath
         partial == [form |-> "partial", pages |-> <<>>]
     IN \/ /\ Exists(in) /\ disk[in].form # "partial"
           /\ disk' = [disk EXCEPT ![out] = [form |-> "gs", pages |-> disk[in].pages]]
           /\ Goto(r, [pc |-> "unlinkTmp", gs |-> "ok"])
        \/ /\ \/ UNCHANGED disk
              \/ disk' = [disk EXCEPT ![out] = partial]
           /\ Goto(r, [pc |-> "unlinkTmp", gs |-> "error"])

compressPDF(r) ==
  /\ req[r].pc = "gs"
  /\ now < MaxClock
  /\ now' = now + 1
  /\ UNCHANGED << db, statOk >>
  /\ LET in == req[r].pdfFilePath
         out == req[r].compressedFilePath
         partial == [form |-> "partial", pages |-> <<>>]
     IN \/ /\ Exists(in) /\ disk[in].form # "partial"
           /\ disk' = [disk EXCEPT ![out] = [form |-> "gs", pages |-> disk[in].pages]]
           /\ Goto(r, [pc |-> "unlinkTmp", gs |-> "ok"])
        \/ /\ Exists(in)
           /\ disk' = [disk EXCEPT ![out] = disk[in]]
           /\ Goto(r, [pc |-> "unlinkTmp", gs |-> "error"])
        \/ /\ \/ UNCHANGED disk
              \/ disk' = [disk EXCEPT ![out] = partial]
           /\ Goto(r, [pc |-> "catch", failedAt |-> "compress", gs |-> "error"])

\* lines 487-492: unlink of the uncompressed file, errors ignored
UnlinkTmp(r) ==
  /\ req[r].pc = "unlinkTmp"
  /\ UNCHANGED << db, now, statOk >>
  /\ \/ disk' = [disk EXCEPT ![req[r].pdfFilePath] = NoFile]
     \/ UNCHANGED disk
  /\ Goto(r, [pc |-> "stat"])

\* the result naming the uncompressed file
GeneratedResultUncompressed(r) ==
  [pdfPath |-> req[r].pdfFilePath, pageCount |-> Len(req[r].allPages)]

\* the result counting the uploaded images instead of the pages
GeneratedResultCountsImages(r) ==
  [pdfPath |-> req[r].compressedFilePath, pageCount |-> Len(req[r].files)]

\* lines 510-523: the object generateAndSavePDF returns
GeneratedResult(r) ==
  [pdfPath |-> req[r].compressedFilePath, pageCount |-> Len(req[r].allPages)]

\* lines 494-523: fs.stat of the compressed file, then the result object
StatPdf(r) ==
  /\ req[r].pc = "stat"
  /\ UNCHANGED << db, disk, now >>
  /\ IF Exists(req[r].compressedFilePath)
     THEN /\ statOk' = statOk \cup {req[r].compressedFilePath}
          /\ Goto(r, [pc |-> "cleanup", pdfResult |-> GeneratedResult(r)])
     ELSE /\ UNCHANGED statOk
          /\ Throw(r, "stat")

----------------------------------------------------------------------------
(* uploadScans after generateAndSavePDF returned *)

\* lines 126-134: delete the old PDF, errors ignored
CleanupOld(r) ==
  /\ req[r].pc = "cleanup"
  /\ UNCHANGED << db, now, statOk >>
  /\ IF Exists(req[r].student.pdfPath)
     THEN \/ /\ disk' = [disk EXCEPT ![req[r].student.pdfPath] = NoFile]
             /\ Goto(r, [pc |-> "save"])
          \/ /\ UNCHANGED disk
             /\ Goto(r, [pc |-> "save"])
     ELSE /\ UNCHANGED disk
          /\ Goto(r, [pc |-> "save"])

\* lines 121-124, 136-141: the fields uploadScans assigns
ScannedDoc(doc, files, pdfPath, t) ==
  [doc EXCEPT !.scannedPages = [k \in 1..Len(files) |-> k],
              !.isScanned = TRUE,
              !.status = IF doc.status = "Pending" THEN "Present" ELSE doc.status,
              !.pdfPath = pdfPath,
              !.pdfGeneratedAt = t]

\* line 143: student.save(); it rejects when the write fails or the document is gone
SaveStudent(r) ==
  /\ req[r].pc = "save"
  /\ UNCHANGED << disk, now, statOk >>
  /\ LET doc == preSave(ScannedDoc(req[r].student, req[r].files,
                                   req[r].pdfResult.pdfPath, now))
     IN \/ /\ db[req[r].sid].exists
           /\ db' = [db EXCEPT ![req[r].sid] = SavedDoc(@, req[r].loaded, doc)]
           /\ Goto(r, [pc |-> "done", outcome |-> 200, student |-> doc])
        \/ /\ UNCHANGED db
           /\ Goto(r, [pc |-> "catch", failedAt |-> "save", student |-> doc])

\* lines 164-178: the catch of the inner try
CatchPdfError(r) ==
  /\ req[r].pc = "catch"
  /\ UNCHANGED << db, now, statOk >>
  /\ IF Exists(req[r].student.pdfPath)
     THEN \/ /\ disk' = [disk EXCEPT ![req[r].student.pdfPath] = NoFile]
             /\ Goto(r, [pc |-> "done", outcome |-> 500])
          \/ /\ UNCHANGED disk
             /\ Goto(r, [pc |-> "done", outcome |-> 500])
     ELSE /\ UNCHANGED disk
          /\ Goto(r, [pc |-> "done", outcome |-> 500])

\* the response has been sent; the request's locals are dropped
Respond(r) ==
  /\ req[r].pc = "done"
  /\ UNCHANGED << db, disk, now, statOk >>
  /\ req' = [req EXCEPT ![r] = IdleReq]

----------------------------------------------------------------------------
(* The other handlers that touch the PDF directory or the scan fields.     *)
(* Each runs from findById to its response in one step.                    *)

\* the fields rescanStudent, deleteScans and batchDeleteScans assign
ClearedDoc(doc) ==
  [doc EXCEPT !.scannedPages = <<>>, !.isScanned = FALSE,
              !.pdfPath = NoPath, !.pdfGeneratedAt = NoTime]

\* if (student.pdfPath) { if (await fileExists(..)) await fs.unlink(..) }, errors ignored
UnlinkPdfOf(s, unlinkOk) ==
  IF Exists(db[s].pdfPath) /\ unlinkOk
  THEN disk' = [disk EXCEPT ![db[s].pdfPath] = NoFile]
  ELSE UNCHANGED disk

\* uploadController.js lines 343-386
rescanStudent(s) ==
  /\ db[s].exists
  /\ UNCHANGED << now, req, statOk >>
  /\ \E unlinkOk \in BOOLEAN : UnlinkPdfOf(s, unlinkOk)
  /\ \/ db' = [db EXCEPT ![s] = SavedDoc(@, @, preSave(ClearedDoc(@)))]
     \/ UNCHANGED db     \* save() rejected

\* uploadController.js lines 190-233
deleteScans(s) ==
  /\ db[s].exists
  /\ UNCHANGED << now, req, statOk >>
  /\ \E unlinkOk \in BOOLEAN : UnlinkPdfOf(s, unlinkOk)
  /\ \/ db' = [db EXCEPT ![s] = SavedDoc(@, @, preSave(ClearedDoc(@)))]
     \/ UNCHANGED db     \* save() rejected

\* uploadController.js lines 391-446: the loop over studentIds; unlinkOk and
\* saveOk are the students whose unlink and save succeed
batchDeleteScans(studentIds) ==
  /\ UNCHANGED << now, req, statOk >>
  /\ \E unlinkOk \in SUBSET studentIds, saveOk \in SUBSET studentIds :
       /\ disk' = [p \in AllPaths |->
                     IF \E s \in studentIds :
                          db[s].exists /\ db[s].pdfPath = p /\ s \in unlinkOk
                     THEN NoFile ELSE disk[p]]
       /\ db' = [s \in Students |->
                   IF s \in studentIds /\ db[s].exists /\ s \in saveOk
                   THEN SavedDoc(db[s], db[s], preSave(ClearedDoc(db[s])))
                   ELSE db[s]]

\* the scan fields cleared for Absent only
updateStatusAbsentOnly(s, status) ==
  /\ db[s].exists
  /\ status \in Statuses
  /\ UNCHANGED << disk, now, req, statOk >>
  /\ db' = [db EXCEPT ![s] =
              IF status = "Absent"
              THEN [ClearedDoc(@) EXCEPT !.status = status]
              ELSE [@ EXCEPT !.status = status]]

\* studentController.js lines 97-144: Student.findByIdAndUpdate(id, updateData)
updateStatus(s, status) ==
  /\ db[s].exists
  /\ status \in Statuses
  /\ UNCHANGED << disk, now, req, statOk >>
  /\ db' = [db EXCEPT ![s] =
              IF status = "Absent" \/ status = "Missing"
              THEN [ClearedDoc(@) EXCEPT !.status = status]
              ELSE [@ EXCEPT !.status = status]]

\* studentController.js lines 316-349
deleteStudent(s) ==
  /\ db[s].exists
  /\ UNCHANGED << now, req, statOk >>
  /\ \E unlinkOk \in BOOLEAN : UnlinkPdfOf(s, unlinkOk)
  /\ db' = [db EXCEPT ![s] = [NewStudent(@.rollNumber) EXCEPT !.exists = FALSE]]

\* uploadController.js lines 238-289: only the branch that writes, lines 257-266
downloadPDF(s) ==
  /\ db[s].exists
  /\ db[s].pdfPath # NoPath
  /\ ~Exists(db[s].pdfPath)
  /\ UNCHANGED << disk, now, req, statOk >>
  /\ db' = [db EXCEPT ![s] =
              SavedDoc(@, @, preSave([@ EXCEPT !.pdfPath = NoPath,
                                               !.pdfGeneratedAt = NoTime]))]

\* uploadController.js lines 294-338: the answer of GET /pdf/:studentId/info
getPDFInfo(s) ==
  IF ~db[s].exists \/ db[s].pdfPath = NoPath
  THEN [code |-> 404, filePath |-> NoPath, pageCount |-> 0, exists |-> FALSE]
  ELSE [code |-> 200, filePath |-> db[s].pdfPath,
        pageCount |-> Len(db[s].scannedPages), exists |-> Exists(db[s].pdfPath)]

\* uploadScans lines 148-161: pdfInfo of the success response
UploadPdfInfo(r) ==
  [filename |-> req[r].pdfResult.pdfPath, pageCount |-> req[r].pdfResult.pageCount]

\* the wall clock advances
Tick ==
  /\ now < MaxClock
  /\ now' = now + 1
  /\ UNCHANGED << db, disk, req, statOk >>

----------------------------------------------------------------------------
(* Specifications *)

UploadStep(r) ==
  \/ TakeBatch(r)
  \/ \E k \in 1..maxConcurrency : SettleTask(r, k)
  \/ CollectBatch(r)
  \/ GenBegin(r)
  \/ ProcessImage(r)
  \/ AddImageToPDF(r)
  \/ WritePdf(r)
  \/ compressPDF(r)
  \/ UnlinkTmp(r)
  \/ StatPdf(r)
  \/ CleanupOld(r)
  \/ SaveStudent(r)
  \/ CatchPdfError(r)

CtlFiles == {Tag(fs) : fs \in SeqsUpTo(CtlImages, MaxFiles)}
PipeFiles == {Tag(fs) : fs \in SeqsUpTo(PipeImages, PipeMaxFiles) \ {<<>>}}

\* one student's record under every handler, any number of times, one
\* request after the other
ScanStudents == {"s1"}

Quiet == \A r \in Reqs : req[r].pc = "idle"

NextScan ==
  \/ \E s \in ScanStudents, fs \in CtlFiles : uploadScans(1, s, fs)
  \/ UploadStep(1)
  \/ Respond(1)
  \/ Quiet /\ \E s \in ScanStudents : rescanStudent(s)
  \/ Quiet /\ \E s \in ScanStudents : deleteScans(s)
  \/ Quiet /\ \E ids \in SUBSET ScanStudents : batchDeleteScans(ids)
  \/ Quiet /\ \E s \in ScanStudents, st \in Statuses : updateStatus(s, st)
  \/ Quiet /\ \E s \in ScanStudents : deleteStudent(s)
  \/ Quiet /\ \E s \in ScanStudents : downloadPDF(s)
  \/ Tick

InitScan == Init /\ db["s2"].rollNumber = "R2"

SpecScan == InitScan /\ [][NextScan]_vars

\* two scan requests in flight together, one upload each
NextPar ==
  \/ \E r \in Reqs, s \in Students, fs \in CtlFiles : uploadScans(r, s, fs)
  \/ \E r \in Reqs : UploadStep(r)
  \/ Tick

SpecPar == Init /\ [][NextPar]_vars

\* one scan request of up to PipeMaxFiles images, from upload to response
NextPipe ==
  \/ \E fs \in PipeFiles : uploadScans(1, "s1", fs)
  \/ UploadStep(1)

InitPipe == Init /\ db["s2"].rollNumber = "R2"

SpecPipe == InitPipe /\ [][NextPipe]_vars

\* processImagesInParallel alone: one request from its validation to the
\* return of processImagesInParallel.  Every started sharp task settles and
\* every continuation whose promise is settled runs (Node's event loop).
PoolFiles == {Tag(fs) : fs \in SeqsUpTo(PoolImages, PoolMaxFiles) \ {<<>>}}

PoolStep(r) ==
  \/ TakeBatch(r)
  \/ \E k \in 1..maxConcurrency : SettleTask(r, k)
  \/ CollectBatch(r)

NextPool ==
  \/ \E fs \in PoolFiles : uploadScans(1, "s1", fs)
  \/ PoolStep(1)

SpecPool == InitPipe /\ [][NextPool]_vars /\ WF_vars(PoolStep(1))

\* one scan request of up to StageMaxFiles images, among them images on which
\* a stage of the pipeline or the embedding fails, and PATCH status requests
\* for the same student at any moment
StageFiles == {Tag(fs) : fs \in SeqsUpTo(StageImages, StageMaxFiles) \ {<<>>}}

NextStage ==
  \/ \E fs \in StageFiles : uploadScans(1, "s1", fs)
  \/ UploadStep(1)
  \/ \E st \in Statuses : updateStatus("s1", st)

SpecStage == InitPipe /\ [][NextStage]_vars

\* the page splitter alone, on a decodable image of every size up to
\* SplitMaxW x SplitMaxH, with and without a brightness seam: the call
\* smartVerticalPageDetection(enhancedImage) of processImagePipeline
SplitImages == {"plain", "gap"}

SplitInput(name, w, h) == [Buffer(name, 2) EXCEPT !.w = w, !.h = h]

SplitProbe(r) ==
  /\ req[r].pc = "split"
  /\ UNCHANGED << db, disk, now, statOk >>
  /\ Goto(r, [pc |-> "splitDone",
              allPages |-> smartVerticalPageDetection(req[r].results[1]),
              splitCalls |-> {2}])

InitSplit ==
  /\ db = [s \in Students |-> NewStudent(IF s = "s1" THEN "R1" ELSE "R2")]
  /\ disk = [p \in AllPaths |-> NoFile]
  /\ now = 0
  /\ statOk = {}
  /\ \E name \in SplitImages, w \in 1..SplitMaxW, h \in 1..SplitMaxH :
       req = [r \in Reqs |->
                IF r = 1
                THEN [pc |-> "split", results |-> <<SplitInput(name, w, h)>>] @@ IdleReq
                ELSE IdleReq]

NextSplit == SplitProbe(1)

SpecSplit == InitSplit /\ [][NextSplit]_vars

\* one student's record under scan requests of no or one image, one after the
\* other, with PATCH status and DELETE student requests at any moment
StatusFiles == {Tag(fs) : fs \in SeqsUpTo({"plain"}, 1)}

NextStatus ==
  \/ \E fs \in StatusFiles : uploadScans(1, "s1", fs)
  \/ UploadStep(1)
  \/ Respond(1)
  \/ \E st \in Statuses : updateStatus("s1", st)
  \/ deleteStudent("s1")

SpecStatus == InitPipe /\ [][NextStatus]_vars

\* the same requests one after the other: the status is set and the student
\* deleted only while no scan request is in flight
NextValidate ==
  \/ \E fs \in StatusFiles : uploadScans(1, "s1", fs)
  \/ UploadStep(1)
  \/ Respond(1)
  \/ Quiet /\ \E st \in Statuses : updateStatus("s1", st)
  \/ Quiet /\ deleteStudent("s1")

SpecValidate == InitPipe /\ [][NextValidate]_vars

\* the boundary detector alone, on pictures of several sizes whose dark
\* pixels are a rectangle with its sides on a grid of DetectGrid parts of the
\* width and height, or no pixel at all; with and without a failing sharp call
DetectWidths == {1, 2, 10, 25, 50, 100, 300}
DetectHeights == {1, 10, 25, 50, 100}

DarkRect(w, h, a, c, t, u) ==
  [x0 |-> (a * w) \div DetectGrid, x1 |-> Min(w - 1, (c * w) \div DetectGrid),
   y0 |-> (t * h) \div DetectGrid, y1 |-> Min(h - 1, (u * h) \div DetectGrid)]

DetectInput(w, h, dark, bad) ==
  LET e == SampledEdges(w, h, dark)
  IN [name |-> "probe", id |-> 1, w |-> w, h |-> h, piece |-> 0, of |-> 0,
      x |-> 0, hist |-> <<>>,
      pix |-> Img(w, h, e.l, e.r, e.t, e.b, NoBands, bad, "jpg")]

DetectProbe(r) ==
  /\ req[r].pc = "detect"
  /\ UNCHANGED << db, disk, now, statOk >>
  /\ Goto(r, [pc |-> "detectDone",
              allPages |-> <<detectDocumentBoundaries(req[r].results[1])>>])

InitDetect ==
  /\ db = [s \in Students |-> NewStudent(IF s = "s1" THEN "R1" ELSE "R2")]
  /\ disk = [p \in AllPaths |-> NoFile]
  /\ now = 0
  /\ statOk = {}
  /\ \E w \in DetectWidths, h \in DetectHeights, bad \in {{}, {"detect"}} :
     \E a, c, t, u \in 0..DetectGrid :
       req = [r \in Reqs |->
                IF r = 1
                THEN [pc |-> "detect",
                      results |-> <<DetectInput(w, h, DarkRect(w, h, a, c, t, u), bad)>>]
                     @@ IdleReq
                ELSE IdleReq]

NextDetect == DetectProbe(1)

SpecDetect == InitDetect /\ [][NextDetect]_vars

\* the brightness analysis alone, on pictures up to GapMaxW wide and 100, 200
\* or 400 high with one or two bright bands of up to GapMaxRun analysis
\* columns: every place of the first band, the second band as wide as the
\* first, right after it or two columns further, either band the brighter one
GapHeights == {100, 200, 400}

GapBands(aw, s, n, d, bright) ==
  LET Clip(x) == Min(x, aw - 1)
      first == <<Band(s, Clip(s + n - 1), bright[1])>>
      s2 == s + n + d
  IN IF d < 0 \/ s2 > aw - 1 THEN first
     ELSE Append(first, Band(s2, Clip(s2 + n - 1), bright[2]))

GapInput(w, h, bands) ==
  [name |-> "probe", id |-> 2, w |-> w, h |-> h, piece |-> 0, of |-> 0,
   x |-> 0, hist |-> <<>>,
   pix |-> Img(w, h, 0, w - 1, 0, h - 1,
               [cols |-> (w * analysisHeight) \div h, bands |-> bands], {}, "jpg")]

GapProbe(r) ==
  /\ req[r].pc = "gaps"
  /\ UNCHANGED << db, disk, now, statOk >>
  /\ Goto(r, [pc |-> "gapsDone",
              gapRegions |-> GapRegions(req[r].results[1]),
              allPages |-> detectVerticalPageGapsByBrightness(req[r].results[1])])

InitGap ==
  /\ db = [s \in Students |-> NewStudent(IF s = "s1" THEN "R1" ELSE "R2")]
  /\ disk = [p \in AllPaths |-> NoFile]
  /\ now = 0
  /\ statOk = {}
  /\ \E w \in 1..GapMaxW, h \in GapHeights :
     \E s \in 0..Max(0, (w * analysisHeight) \div h - 1), n \in 1..GapMaxRun,
        d \in {-1, 0, 2}, bright \in {<<120, 97>>, <<97, 120>>, <<120, 120>>} :
       /\ d = -1 => bright = <<120, 97>>
       /\ req = [r \in Reqs |->
                   IF r = 1
                   THEN [pc |-> "gaps",
                         results |-> <<GapInput(w, h,
                                        GapBands((w * analysisHeight) \div h,
                                                 s, n, d, bright))>>] @@ IdleReq
                   ELSE IdleReq]

NextGap == GapProbe(1)

SpecGap == InitGap /\ [][NextGap]_vars

----------------------------------------------------------------------------
(* Properties *)

Done(r, code) == req[r].pc = "done" /\ req[r].outcome = code
Referenced(p) == \E s \in Students : db[s].exists /\ db[s].pdfPath = p
ExistsNext(p) == p # NoPath /\ disk'[p] # NoFile

\* C1: whenever no request is in flight, every file in the PDF directory is
\* the pdfPath of some student record.
C1_NoOrphanedFiles ==
  (\A r \in Reqs : req[r].pc \in {"idle", "done"})
    => \A p \in AllPaths : Exists(p) => Referenced(p)

\* C2: when uploadScans has answered 500, the student's record equals the one
\* the request loaded and the file that record references is still on disk.
C2_FailedScanKeepsPriorState ==
  \A r \in Reqs :
    Done(r, 500) =>
      /\ db[req[r].sid] = req[r].loaded
      /\ req[r].loaded.pdfPath # NoPath => Exists(req[r].loaded.pdfPath)

\* C3: when generateAndSavePDF failed at or after its writeFile, the request
\* ends with neither its uncompressed file nor its _compressed file on disk.
C3_FailedGenerateLeavesNoNewFile ==
  \A r \in Reqs :
    (Done(r, 500) /\ req[r].failedAt \in {"write", "compress", "stat"}) =>
      /\ ~Exists(req[r].pdfFilePath)
      /\ ~Exists(req[r].compressedFilePath)

\* C4: when uploadScans has answered 200 for a student whose record referenced
\* a file on disk, the record references the new compressed file, that file
\* exists, and the old file is gone.
C4_SuccessSupersedesOldFile ==
  \A r \in Reqs :
    (Done(r, 200) /\ req[r].loaded.pdfPath # NoPath) =>
      /\ db[req[r].sid].pdfPath = req[r].compressedFilePath
      /\ Exists(req[r].compressedFilePath)
      /\ ~Exists(req[r].loaded.pdfPath)

\* C5: a step of uploadScans that removes the student's prior file is taken
\* only when the request's new compressed file is on disk.
C5_OldDeletedOnlyAfterNewOnDisk ==
  [][\A r \in Reqs :
       ( /\ req[r].pc \in {"cleanup", "catch"}
         /\ Exists(req[r].loaded.pdfPath)
         /\ ~ExistsNext(req[r].loaded.pdfPath) )
       => Exists(req[r].compressedFilePath)]_vars

\* C6: a pdfPath in a student record is a _compressed path that fs.stat
\* confirmed after compressPDF resolved, and at the save the file it names is
\* on disk, whole, with every page of the request.
C6_PdfPathIsConfirmedCompressedFile ==
  /\ \A s \in Students :
       db[s].pdfPath # NoPath =>
         /\ db[s].pdfPath.kind = "compressed"
         /\ db[s].pdfPath \in statOk
  /\ \A r \in Reqs :
       req[r].pc = "save" =>
         /\ req[r].pdfResult.pdfPath \in statOk
         /\ Exists(req[r].pdfResult.pdfPath)
         /\ disk[req[r].pdfResult.pdfPath].form \in {"gs", "raw"}
         /\ disk[req[r].pdfResult.pdfPath].pages = DocPages(r)
         /\ Len(DocPages(r)) = Len(req[r].allPages)

\* a scan has set a student's pdfPath
C6_Witness ==
  \E r \in Reqs :
    /\ Done(r, 200)
    /\ db[req[r].sid].pdfPath = req[r].compressedFilePath
    /\ Exists(req[r].compressedFilePath)

\* C7: no two uploadScans runs for the same student are past validation at
\* the same time.
InFlight(r) == req[r].pc \notin {"idle", "done"}
C7_SameStudentScansSerialized ==
  \A r1, r2 \in Reqs :
    (r1 # r2 /\ InFlight(r1) /\ InFlight(r2)) => req[r1].sid # req[r2].sid

\* C8: when two uploadScans for different students have both answered 200,
\* each student references the file its own request wrote, the two files are
\* different, and both are on disk with the pages of their own request.
C8_DifferentStudentsIndependent ==
  \A r1, r2 \in Reqs :
    (r1 # r2 /\ Done(r1, 200) /\ Done(r2, 200) /\ req[r1].sid # req[r2].sid) =>
      /\ db[req[r1].sid].pdfPath = req[r1].compressedFilePath
      /\ db[req[r1].sid].pdfPath # db[req[r2].sid].pdfPath
      /\ Exists(req[r1].compressedFilePath)
      /\ disk[req[r1].compressedFilePath].pages = DocPages(r1)

\* the pages of a request's document that come from the image at position k
PagesOf(pages, k) == {n \in DOMAIN pages : pages[n].src = k}
PipelineDone(r) ==
  \/ req[r].pc = "pipeline" /\ req[r].i > 1
  \/ req[r].pc \in {"embed", "write", "gs", "unlinkTmp", "stat", "cleanup", "save"}
  \/ req[r].pc \in {"catch", "done"} /\ req[r].failedAt \notin {"-", "mkdir"}
  \/ Done(r, 200)

\* C9: the image at position 0 of a batch is never handed to the splitter and
\* contributes exactly one page, to allPages and to the written document.
C9_FirstImageNeverSplit ==
  \A r \in Reqs :
    /\ 1 \notin req[r].splitCalls
    /\ PipelineDone(r) =>
         Cardinality({n \in DOMAIN req[r].allPages : req[r].allPages[n].id = 1}) = 1
    /\ (Exists(req[r].compressedFilePath)
          /\ disk[req[r].compressedFilePath].form # "partial") =>
         Cardinality(PagesOf(disk[req[r].compressedFilePath].pages, 1)) = 1

\* a two-image scan whose first image has aspect ratio 2.0 has been written,
\* and its second image was split
C9_Witness ==
  \E r \in Reqs :
    /\ Done(r, 200)
    /\ Len(req[r].files) >= 2
    /\ req[r].files[1].name = "big"
    /\ 2 \in req[r].splitCalls
    /\ Cardinality(PagesOf(disk[req[r].compressedFilePath].pages, 2)) = 3

\* C10: the pages of a written document are the images of the request in
\* input order, each image's slices together, numbered 1..of and in
\* left-to-right order of their cut.
InInputOrder(pages, nFiles) ==
  /\ {pages[n].src : n \in DOMAIN pages} = 1..nFiles
  /\ \A m, n \in DOMAIN pages :
       m < n =>
         /\ pages[m].src <= pages[n].src
         /\ pages[m].src = pages[n].src =>
              /\ pages[m].piece < pages[n].piece
              /\ pages[m].x < pages[n].x
  /\ \A n \in DOMAIN pages :
       /\ pages[n].of = 0 =>
            pages[n].piece = 0 /\ Cardinality(PagesOf(pages, pages[n].src)) = 1
       /\ pages[n].of > 0 =>
            /\ pages[n].piece \in 1..pages[n].of
            /\ Cardinality(PagesOf(pages, pages[n].src)) = pages[n].of

C10_PagesInInputOrder ==
  \A r \in Reqs :
    /\ (Exists(req[r].pdfFilePath) /\ disk[req[r].pdfFilePath].form # "partial")
         => InInputOrder(disk[req[r].pdfFilePath].pages, Len(req[r].files))
    /\ (Exists(req[r].compressedFilePath)
          /\ disk[req[r].compressedFilePath].form # "partial")
         => InInputOrder(disk[req[r].compressedFilePath].pages, Len(req[r].files))

\* a scan of more images than one concurrent group holds has been written; one
\* of its images was split and one fell back to the uploaded buffer
C10_Witness ==
  \E r \in Reqs :
    /\ Done(r, 200)
    /\ Len(req[r].files) > maxConcurrency
    /\ \E n \in DOMAIN disk[req[r].compressedFilePath].pages :
         disk[req[r].compressedFilePath].pages[n].of = 3
    /\ \E n \in DOMAIN disk[req[r].compressedFilePath].pages :
         disk[req[r].compressedFilePath].pages[n].codec = "png"

\* the pages the pipeline makes of the image at position k of a request
PiecesOf(r, k) ==
  Len(processImagePipeline(fastCompressImage(req[r].files[k]), isFirstPage(k)))

\* C11: the pageCount generateAndSavePDF returns is the number of pages of the
\* written document; the first image gives one page and every later image as
\* many pages as the splitter returned for it (1, 2 or 3).
C11_PageCountIsDocumentPages ==
  \A r \in Reqs :
    (req[r].pc \in {"cleanup", "save"} \/ Done(r, 200)) =>
      LET doc == disk[req[r].compressedFilePath].pages
          n == Len(req[r].files)
      IN /\ req[r].pdfResult.pageCount = Len(doc)
         /\ {doc[m].src : m \in DOMAIN doc} \subseteq 1..n
         /\ Cardinality(PagesOf(doc, 1)) = 1
         /\ \A k \in 2..n :
              /\ Cardinality(PagesOf(doc, k)) = PiecesOf(r, k)
              /\ PiecesOf(r, k) \in {1, 2, 3}

\* two images of aspect ratio 2.0 have been written as a 4-page document
C11_Witness ==
  \E r \in Reqs :
    /\ Done(r, 200)
    /\ Len(req[r].files) = 2
    /\ req[r].files[1].name = "big" /\ req[r].files[2].name = "big"
    /\ req[r].pdfResult.pageCount = 4
    /\ Len(disk[req[r].compressedFilePath].pages) = 4

\* the image handed to the splitter and what the splitter returned
Split(r) == req[r].pc = "splitDone"
SplitIn(r) == req[r].results[1]
SplitOut(r) == req[r].allPages

\* the three slices without their safety margins are floor(w/3), floor(w/3)
\* and the rest, side by side from column 0 to column w
ThreeSlicesCoverWidth(in, out) ==
  LET pageWidth == in.w \div 3
      safetyMargin == (3 * pageWidth) \div 100
      w1 == out[1].w - safetyMargin
      w2 == out[2].w - 2 * safetyMargin
      w3 == out[3].w - safetyMargin
  IN /\ Len(out) = 3
     /\ \A k \in 1..3 : out[k].piece = k /\ out[k].of = 3 /\ out[k].h = in.h
     /\ w1 = pageWidth /\ w2 = pageWidth /\ w3 = in.w - 2 * pageWidth
     /\ w1 + w2 + w3 = in.w
     /\ out[1].x = 0
     /\ out[2].x + safetyMargin = w1
     /\ out[3].x + safetyMargin = w1 + w2

\* C12 as stated: every image of aspect ratio above 1.8, whatever its width
\* and height, comes back as 3 slices whose widths without margins sum to w.
C12_ThreeWaySplitEveryWidth ==
  \A r \in Reqs :
    (Split(r) /\ 10 * SplitIn(r).w > 18 * SplitIn(r).h) =>
      ThreeSlicesCoverWidth(SplitIn(r), SplitOut(r))

\* C12: every image of aspect ratio above 1.8 and at least 3 pixels wide
\* comes back as 3 slices whose widths without margins, floor(w/3),
\* floor(w/3) and w - 2*floor(w/3), sum to w; an image narrower than 3 pixels
\* (2 x 1) comes back unsplit, as one image.
C12_ThreeWaySplitFromWidth3 ==
  \A r \in Reqs :
    (Split(r) /\ 10 * SplitIn(r).w > 18 * SplitIn(r).h) =>
      IF SplitIn(r).w >= 3
      THEN ThreeSlicesCoverWidth(SplitIn(r), SplitOut(r))
      ELSE SplitOut(r) = <<SplitIn(r)>>

\* a 104 x 50 image (width not a multiple of 3, margin of one pixel) was split
C12_Witness ==
  \E r \in Reqs :
    /\ Split(r)
    /\ SplitIn(r).w = 104 /\ SplitIn(r).h = 50
    /\ Len(SplitOut(r)) = 3
    /\ SplitOut(r)[3].w = 104 - 2 * 34 + 1

\* C13: every image of aspect ratio in (1.3, 1.8] comes back as the 2 slices
\* of splitIntoTwoPagesVertical, whatever its width, height and brightness
\* profile; the brightness analysis is not the branch taken.
C13_TwoWaySplit ==
  \A r \in Reqs :
    (/\ Split(r)
     /\ 10 * SplitIn(r).w > 13 * SplitIn(r).h
     /\ 10 * SplitIn(r).w <= 18 * SplitIn(r).h) =>
      /\ Len(SplitOut(r)) = 2
      /\ SplitRoute(SplitIn(r)) = "two"
      /\ SplitOut(r) = splitIntoTwoPagesVertical(SplitIn(r))
      /\ \A k \in 1..2 : SplitOut(r)[k].piece = k /\ SplitOut(r)[k].of = 2

\* images of aspect ratio 1.4 and exactly 1.8 were split in two, one of them
\* with a brightness seam
C13_Witness ==
  \E r \in Reqs :
    /\ Split(r)
    /\ SplitIn(r).name = "gap"
    /\ \/ SplitIn(r).w = 70 /\ SplitIn(r).h = 50
       \/ SplitIn(r).w = 90 /\ SplitIn(r).h = 50
    /\ Len(SplitOut(r)) = 2

\* the fastCompressImage runs of a request that have started and not settled
RunsInFlight(r) ==
  IF req[r].pc = "await" THEN req[r].batch - Len(req[r].order) ELSE 0

InPool(r) == req[r].pc \in {"compress", "await"}

PoolSafe ==
  \A r \in Reqs :
    /\ RunsInFlight(r) <= maxConcurrency
    /\ RunsInFlight(r) >= 0
    /\ InPool(r) =>
         /\ req[r].taken = Len(req[r].results) + req[r].batch
         /\ \A k \in DOMAIN req[r].results : req[r].results[k].id = k
    /\ req[r].pc = "generate" =>
         /\ Len(req[r].results) = Len(req[r].files)
         /\ \A k \in DOMAIN req[r].files : req[r].results[k].id = k

\* C15: at most maxConcurrency (4) fastCompressImage runs of a request are in
\* flight at any time, the results hold every input image exactly once, in
\* place, and processImagesInParallel returns for every list of files.
C15_BoundedPoolTerminates ==
  /\ []PoolSafe
  /\ \A r \in Reqs : InPool(r) ~> (req[r].pc = "generate")

\* the third group of a nine-image request is in flight
C15_Witness ==
  \E r \in Reqs :
    /\ req[r].pc = "await"
    /\ Len(req[r].files) = 9
    /\ Len(req[r].results) = 8
    /\ RunsInFlight(r) = 1

\* generateAndSavePDF's loop over imageBuffers has ended
AllImagesDone(r) ==
  \/ req[r].pc \in {"embed", "write", "gs", "unlinkTmp", "stat", "cleanup", "save"}
  \/ req[r].pc \in {"catch", "done"} /\ req[r].failedAt \notin {"-", "mkdir"}
  \/ Done(r, 200)

\* the entries of allPages that come from the image at position k
PagesOfImage(r, k) ==
  LET FromK(p) == p.id = k IN SelectSeq(req[r].allPages, FromK)

\* the stages a buffer went through before it was cut
Stem(hist) == LET NotSlice(x) == x # "slice" IN SelectSeq(hist, NotSlice)

\* C14: whatever stages fail on an image, the loop over the images ends, the
\* image gives at least one page made from its last successful intermediate
\* (the input when detection failed, the cropped image when enhancement
\* failed, the enhanced un-split image when splitting failed), and every
\* image gives the pages its own pipeline makes of it.
C14_StageFailureFallsBack ==
  \A r \in Reqs :
    AllImagesDone(r) =>
      \A k \in 1..Len(req[r].files) :
        LET up == req[r].files[k]
            b == fastCompressImage(up)
            cropped == detectDocumentBoundaries(b)
            enhanced == enhanceDocumentQuality(cropped)
            pages == PagesOfImage(r, k)
            split == SplitterCalled(isFirstPage(k))
        IN /\ Len(pages) >= 1
           /\ pages = processImagePipeline(b, isFirstPage(k))
           /\ "detect" \in Bad(up) =>
                \A n \in DOMAIN pages : "crop" \notin Range(pages[n].hist)
           /\ "enhance" \in Bad(up) =>
                \A n \in DOMAIN pages : Stem(pages[n].hist) = cropped.hist
           /\ (split /\ "split" \in Bad(up)) => pages = <<enhanced>>
           /\ {"fast", "detect", "enhance", "split"} \subseteq Bad(up) =>
                pages = <<up>>

\* a scan whose second image failed its enhancement was written: the first
\* image gave one page, the second the three slices of its cropped image
C14_Witness ==
  \E r \in Reqs :
    /\ Done(r, 200)
    /\ Len(req[r].files) = 2
    /\ req[r].files[1].name = "three" /\ req[r].files[2].name = "noenh"
    /\ Len(PagesOfImage(r, 1)) = 1
    /\ Len(PagesOfImage(r, 2)) = 3
    /\ \A n \in 1..3 : PagesOfImage(r, 2)[n].hist = <<"fast", "crop", "slice">>

\* the file generateAndSavePDF wrote before it called compressPDF
Assembled(r) == [form |-> "raw", pages |-> DocPages(r)]

\* C16: when gs failed and compressPDF has resolved, the output path holds
\* the content of the input file and the input file is as it was written.
C16_FallbackCopyIsIdentical ==
  \A r \in Reqs :
    (req[r].pc = "unlinkTmp" /\ req[r].gs = "error") =>
      /\ Exists(req[r].compressedFilePath)
      /\ disk[req[r].compressedFilePath] = disk[req[r].pdfFilePath]
      /\ disk[req[r].pdfFilePath] = Assembled(r)

\* gs failed on a document of four pages and compressPDF resolved
C16_Witness ==
  \E r \in Reqs :
    /\ req[r].pc = "unlinkTmp"
    /\ req[r].gs = "error"
    /\ Len(disk[req[r].compressedFilePath].pages) = 4
    /\ disk[req[r].compressedFilePath].form = "raw"

\* C17: no scan request fails because of the compression step.
C17_CompressionNeverFailsScan ==
  \A r \in Reqs : req[r].failedAt # "compress"

\* C20: every page added to the document is one entry of allPages, a page
\* whose JPEG embed fails is embedded as PNG, the assembly fails in
\* addImageToPDF only on a page that neither embed accepts, and then no file
\* is written to the PDF directory.
C20_EmbedFallsBackToPng ==
  \A r \in Reqs :
    /\ req[r].pc \in {"embed", "write"} =>
         /\ Len(DocPages(r)) = req[r].i - 1
         /\ \A m \in DOMAIN DocPages(r) :
              /\ DocPages(r)[m].src = req[r].allPages[m].id
              /\ DocPages(r)[m].piece = req[r].allPages[m].piece
              /\ DocPages(r)[m].codec = Emb(req[r].allPages[m])
              /\ DocPages(r)[m].codec \in {"jpg", "png"}
    /\ req[r].pc = "write" => Len(DocPages(r)) = Len(req[r].allPages)
    /\ req[r].failedAt = "embed" =>
         /\ Emb(req[r].allPages[req[r].i]) = "none"
         /\ \A p \in AllPaths : ~Exists(p)

\* the first page of a request went into the document as PNG and the
\* assembly then failed on a page neither embed accepts
C20_Witness ==
  \E r \in Reqs :
    /\ Done(r, 500)
    /\ req[r].failedAt = "embed"
    /\ req[r].i = 2
    /\ Emb(req[r].allPages[1]) = "png"
    /\ DocPages(r)[1].codec = "png"

\* the scan fields of a student record
ScanFields(doc) ==
  << doc.scannedPages, doc.isScanned, doc.pdfPath, doc.pdfGeneratedAt >>

\* C18: a step of updateStatus to Absent or Missing leaves the record with
\* that status, pdfPath and pdfGeneratedAt null, isScanned false and no
\* scannedPages; a step to Pending or Present changes the status only.
C18_UpdateStatusResetsScan ==
  [][\A s \in Students, st \in Statuses :
       updateStatus(s, st) =>
         /\ db'[s].status = st
         /\ st \in {"Absent", "Missing"} =>
              ScanFields(db'[s]) = << <<>>, FALSE, NoPath, NoTime >>
         /\ st \in {"Pending", "Present"} =>
              ScanFields(db'[s]) = ScanFields(db[s])]_vars

\* a scanned student was set to Missing: the record is reset while the
\* request that scanned it has answered 200
C18_Witness ==
  \E r \in Reqs :
    /\ Done(r, 200)
    /\ db[req[r].sid].status = "Missing"
    /\ ScanFields(db[req[r].sid]) = << <<>>, FALSE, NoPath, NoTime >>
    /\ req[r].student.pdfPath # NoPath

\* rescanStudent or deleteScans ran on student s and its save() was applied
RescanSucceeded(s) ==
  /\ rescanStudent(s) \/ deleteScans(s)
  /\ db' = [db EXCEPT ![s] = SavedDoc(@, @, preSave(ClearedDoc(@)))]

\* C19: a successful rescanStudent or deleteScans leaves the student with no
\* scan fields set and the same status, the file the record referenced is
\* gone, and an uploadScans of 1..50 images for an existing student who is
\* not Absent passes validation.
C19_RescanResetsToNoScan ==
  [][/\ \A s \in Students :
          RescanSucceeded(s) =>
            /\ ScanFields(db'[s]) = << <<>>, FALSE, NoPath, NoTime >>
            /\ db'[s].status = db[s].status
            /\ db[s].pdfPath # NoPath => ~ExistsNext(db[s].pdfPath)
     /\ \A r \in Reqs :
          ( /\ req[r].pc = "idle" /\ req'[r].pc # "idle"
            /\ Len(req'[r].files) \in 1..MaxUpload
            /\ db[req'[r].sid].exists
            /\ db[req'[r].sid].status # "Absent" )
          => req'[r].pc = "compress"]_vars

\* the image handed to the boundary detector and what it returned
Detected(r) == req[r].pc = "detectDone"
DetectIn(r) == req[r].results[1]
DetectOut(r) == req[r].allPages

\* C21: detectDocumentBoundaries always returns an image, and it returns its
\* input when the box of the sampled dark pixels is narrower than 60% of the
\* width or lower than 60% of the height (no dark sample: the box is empty),
\* and when a sharp call throws or rejects the extract region.
C21_UnreliableDetectionReturnsInput ==
  \A r \in Reqs :
    Detected(r) =>
      LET in == DetectIn(r)
          box == Pix(in).box
          none == box.l > box.r \/ box.t > box.b
          throws == "detect" \in Pix(in).bad \/ ~WholeRect(CropRect(in))
      IN /\ Len(DetectOut(r)) = 1
         /\ DetectOut(r)[1].id = in.id
         /\ ( \/ none
              \/ 10 * (box.r - box.l) < 6 * in.w
              \/ 10 * (box.b - box.t) < 6 * in.h
              \/ throws ) => DetectOut(r)[1] = in

\* a 50 x 50 picture whose dark box is 30 wide and 10 high came back as it was
C21_Witness ==
  \E r \in Reqs :
    /\ Detected(r)
    /\ DetectIn(r).w = 50 /\ DetectIn(r).h = 50
    /\ Pix(DetectIn(r)).bad = {}
    /\ Pix(DetectIn(r)).box = [l |-> 10, r |-> 40, t |-> 10, b |-> 20]
    /\ DetectOut(r) = <<DetectIn(r)>>

\* request r is answered with code by its validation: nothing was processed
RejectedNext(r, code) ==
  /\ req'[r].pc = "done" /\ req'[r].outcome = code
  /\ req'[r].taken = 0 /\ req'[r].results = <<>> /\ req'[r].allPages = <<>>
  /\ db' = db /\ disk' = disk

\* C22: a request without images is answered 400, one for an unknown student
\* 404 and one for an Absent student 400, in the step that validates it: no
\* image is processed, the PDF directory and the students are as before, and
\* the request then only sends its response.
C22_RejectedBeforeProcessing ==
  [][\A r \in Reqs :
       /\ (req[r].pc = "idle" /\ req'[r].pc # "idle") =>
            LET s == req'[r].sid
                n == Len(req'[r].files)
            IN /\ n = 0 => RejectedNext(r, 400)
               /\ (n \in 1..MaxUpload /\ ~db[s].exists) => RejectedNext(r, 404)
               /\ (n \in 1..MaxUpload /\ db[s].exists /\ db[s].status = "Absent")
                    => RejectedNext(r, 400)
       /\ (req[r].pc = "done" /\ req[r].outcome \in {400, 404}) =>
            req'[r] \in {req[r], IdleReq}]_vars

\* a scan request for an Absent student was answered 400
C22_Witness ==
  \E r \in Reqs :
    /\ Done(r, 400)
    /\ Len(req[r].files) = 1
    /\ db[req[r].sid].exists
    /\ db[req[r].sid].status = "Absent"

\* C23: when uploadScans has answered 200, the number of scannedPages saved
\* for the student, which getPDFInfo reports as pageCount, is the pageCount
\* of the generated document that the response carries in pdfInfo.
C23_PersistedCountIsDocumentCount ==
  \A r \in Reqs :
    Done(r, 200) =>
      /\ Len(db[req[r].sid].scannedPages) = UploadPdfInfo(r).pageCount
      /\ getPDFInfo(req[r].sid).pageCount = UploadPdfInfo(r).pageCount

\* C24: a student whose status is Absent has isScanned false, no
\* scannedPages and no pdfPath, in every state, whatever updateStatus request
\* arrives while an uploadScans for the student is in flight.
C24_AbsentHasNoScan ==
  \A s \in Students :
    (db[s].exists /\ db[s].status = "Absent") =>
      /\ ~db[s].isScanned
      /\ db[s].scannedPages = <<>>
      /\ db[s].pdfPath = NoPath

\* C25: two different student records never hold the same pdfPath, also when
\* the two students have the same roll number and their documents are named
\* at the same value of the clock.
C25_NoSharedDocumentPath ==
  \A s, t \in Students :
    (s # t /\ db[s].exists /\ db[t].exists /\ db[s].pdfPath # NoPath) =>
      db[s].pdfPath # db[t].pdfPath

\* isScanned and pdfPath agree with scannedPages
ScanFieldsAgree(doc) ==
  /\ doc.isScanned <=> Len(doc.scannedPages) > 0
  /\ doc.pdfPath # NoPath => Len(doc.scannedPages) > 0

\* a step in which a handler's student.save() for student s is applied
SaveApplied(s) ==
  \/ \E r \in Reqs : req[r].sid = s /\ SaveStudent(r) /\ req'[r].outcome = 200
  \/ (rescanStudent(s) \/ deleteScans(s) \/ downloadPDF(s)) /\ db'[s] # db[s]

\* C26: right after a save of a student record by uploadScans, rescanStudent,
\* deleteScans or downloadPDF, the record's isScanned is true exactly when it
\* has scannedPages, and it has a pdfPath only if it has scannedPages.
C26_SavedRecordIsConsistent ==
  [][\A s \in Students : SaveApplied(s) => ScanFieldsAgree(db'[s])]_vars

\* the picture handed to the brightness analysis, the candidate gaps it kept
\* and what it returned
Gapped(r) == req[r].pc = "gapsDone"
GapIn(r) == req[r].results[1]
GapOut(r) == req[r].allPages

\* the last column of the run of gap columns that starts at column s
RunEnd(cols, s) ==
  CHOOSE e \in cols : e >= s /\ (e + 1) \notin cols /\ \A x \in s..e : x \in cols

\* C28: every candidate is a whole run of gap columns, and a run of gap
\* columns (one that reaches the last analysis column included) is a
\* candidate exactly if it has at least floor(5% of the analysis width)
\* columns.
C28_RunKeptByColumnCount ==
  \A r \in Reqs :
    Gapped(r) =>
      LET in == GapIn(r)
          cols == GapColumns(in)
          starts == {s \in cols : (s - 1) \notin cols}
          Kept(s) == \E k \in DOMAIN req[r].gapRegions :
                       /\ req[r].gapRegions[k].start = s
                       /\ req[r].gapRegions[k].end = RunEnd(cols, s)
      IN /\ \A k \in DOMAIN req[r].gapRegions :
              /\ req[r].gapRegions[k].start \in starts
              /\ req[r].gapRegions[k].end = RunEnd(cols, req[r].gapRegions[k].start)
         /\ \A s \in starts :
              Kept(s) <=> (RunEnd(cols, s) - s + 1 >= minGapWidth(in))

\* C29: the analysis returns one or two images; two only if there is a
\* candidate and the centre of the chosen one, scaled to the image, is above
\* 30% and below 70% of the width; with no candidate or a centre outside it
\* returns the input image alone; the two images are the parts left and
\* right of the split point.
C29_SplitOnlyInsideBand ==
  \A r \in Reqs :
    Gapped(r) =>
      LET in == GapIn(r)
          out == GapOut(r)
          regions == req[r].gapRegions
          sp == SplitPoint(in, BestGap(regions))
          safety == (3 * in.w) \div 200
          inside == 10 * sp > 3 * in.w /\ 10 * sp < 7 * in.w
      IN /\ Len(out) \in {1, 2}
         /\ Len(out) = 1 => out = <<in>>
         /\ Len(out) = 2 => regions # <<>> /\ inside
         /\ (regions = <<>> \/ ~inside) => out = <<in>>
         /\ Len(out) = 2 =>
              /\ out[1].x = 0 /\ out[1].w = sp + safety
              /\ out[2].x = sp - safety /\ out[2].w = in.w - (sp - safety)

\* of two candidates of one width the second, brighter one was chosen and the
\* picture was cut at its centre
C29_Witness ==
  \E r \in Reqs :
    /\ Gapped(r)
    /\ Len(req[r].gapRegions) = 2
    /\ req[r].gapRegions[1].width = req[r].gapRegions[2].width
    /\ req[r].gapRegions[2].strength > req[r].gapRegions[1].strength
    /\ Len(GapOut(r)) = 2
    /\ GapOut(r)[1].w = SplitPoint(GapIn(r), req[r].gapRegions[2])
                          + (3 * GapIn(r).w) \div 200

\* C27: when the splitter returns two or three slices of an image, every
\* slice is at least one column wide and inside the image, each slice
\* overlaps the next by twice the safety margin of the cut (floor(2% of w)
\* two ways, floor(3% of floor(w/3)) three ways, floor(1.5% of w) at a
\* brightness seam), and every column of the image is in some slice.
C27_SlicesOverlapAndCover ==
  \A r \in Reqs :
    (Split(r) /\ Len(SplitOut(r)) > 1) =>
      LET in == SplitIn(r)
          out == SplitOut(r)
          n == Len(out)
          margin == IF 10 * in.w > 18 * in.h THEN (3 * (in.w \div 3)) \div 100
                    ELSE IF 10 * in.w > 13 * in.h THEN in.w \div 50
                    ELSE (3 * in.w) \div 200
      IN /\ n \in {2, 3}
         /\ \A k \in 1..n :
              /\ out[k].w > 0
              /\ out[k].x >= 0 /\ out[k].x + out[k].w <= in.w
              /\ out[k].h = in.h
         /\ \A k \in 1..(n - 1) :
              (out[k].x + out[k].w) - out[k + 1].x = 2 * margin
         /\ \A c \in 0..(in.w - 1) :
              \E k \in 1..n : out[k].x <= c /\ c < out[k].x + out[k].w

\* a 100 x 60 image was cut into columns 0..51 and 48..99
C27_Witness ==
  \E r \in Reqs :
    /\ Split(r)
    /\ SplitIn(r).w = 100 /\ SplitIn(r).h = 60
    /\ Len(SplitOut(r)) = 2
    /\ SplitOut(r)[1].x = 0 /\ SplitOut(r)[1].w = 52
    /\ SplitOut(r)[2].x = 48 /\ SplitOut(r)[2].w = 52

\* the detector returned a cropped image
Cropped(r) == Detected(r) /\ DetectOut(r) # <<DetectIn(r)>>

\* the extract region lies inside the image and the result has its size
CropInsideImage(in, out) ==
  LET c == CropRect(in)
  IN /\ c.left50 >= 0 /\ c.top50 >= 0
     /\ c.left50 + c.width50 <= 50 * in.w
     /\ c.top50 + c.height50 <= 50 * in.h
     /\ 50 * out.w = c.width50 /\ 50 * out.h = c.height50
     /\ out.w <= in.w /\ out.h <= in.h

\* C30: when detectDocumentBoundaries crops, the extract region is inside
\* the image, so the result is not larger than the input, and on each of
\* the four sides the region reaches at most min(30, 2% of the width, 2% of
\* the height) beyond the outermost sampled dark pixel of that side.
C30_CropInsideWithBoundedMargin ==
  \A r \in Reqs :
    Cropped(r) =>
      LET in == DetectIn(r)
          c == CropRect(in)
          box == Pix(in).box
          m50 == Min(MarginCap * 50, Min(in.w, in.h))
      IN /\ CropInsideImage(in, DetectOut(r)[1])
         /\ 50 * box.l - c.left50 <= m50
         /\ 50 * box.t - c.top50 <= m50
         /\ (c.left50 + c.width50) - 50 * (box.r + 1) <= m50
         /\ (c.top50 + c.height50) - 50 * (box.b + 1) <= m50

====
